---- MODULE Spec2Model ----
(***************************************************************************)
(* Request/response processing of the Arium API client                     *)
(* (src/src/api_call/arium/api/request.py): the retry decorator, the       *)
(* content decoder get_content, the polling loops, and the operations      *)
(* asset_list, get_content_from_url and asset_post built on them.          *)
(*                                                                         *)
(* Bytes are numbers 0..255, a body is a sequence of bytes, a text is a    *)
(* sequence of code points.  The library conversions the decoder calls     *)
(* (bytes.decode, json.loads, bytes.splitlines, codecs.iterdecode,         *)
(* csv.reader, zipfile) are operators that compute what the library        *)
(* computes on the byte values the model uses: no NUL byte, no byte above  *)
(* 223, no quote character in CSV input, JSON made of integers, strings    *)
(* without escapes, arrays and objects.                                    *)
(***************************************************************************)
EXTENDS Integers, Sequences, FiniteSets, TLC

\* ------------------------------------------------------------------ bounds
\* Longest body enumerated over ByteAlphabet (the sample bodies are longer).
MaxBodyLen == 2

\* ------------------------------------------------------- program constants
\* retry(times=10)
Times == 10
\* delimiter="," (byte 44)
Delimiter == 44

\* accept = [HTTPStatus.OK, HTTPStatus.NO_CONTENT]
DefaultAccept == {200, 204}
\* accept = [HTTPStatus.OK, HTTPStatus.ACCEPTED, HTTPStatus.PROCESSING]
PollingAccept == {200, 202, 102}

\* Python's None, as the default of headers.get("Location", None).
None == "None"

\* ---------------------------------------------------------- failure values
Failed == [ok |-> FALSE, value |-> <<>>]
Success(v) == [ok |-> TRUE, value |-> v]

\* ------------------------------------------------- bytes.decode("utf-8")
\* Strict UTF-8 decoding of one- and two-byte sequences.
RECURSIVE Utf8From(_, _, _)
Utf8From(b, i, acc) ==
    IF i > Len(b) THEN Success(acc)
    ELSE IF b[i] < 128 THEN Utf8From(b, i + 1, Append(acc, b[i]))
    ELSE IF b[i] \in 194..223 /\ i + 1 <= Len(b) /\ b[i + 1] \in 128..191
         THEN Utf8From(b, i + 2, Append(acc, (b[i] - 192) * 64 + (b[i + 1] - 128)))
    ELSE Failed

Utf8Decode(b) == Utf8From(b, 1, <<>>)

\* --------------------------------------------------------- json.loads
JsonWhitespace == {32, 9, 10, 13}
JsonDigits == 48..57

RECURSIVE SkipWhitespace(_, _)
SkipWhitespace(s, i) ==
    IF i <= Len(s) /\ s[i] \in JsonWhitespace THEN SkipWhitespace(s, i + 1) ELSE i

\* A JSON value: a number (n), an array (items), a string (text) or an
\* object (items: its members, each a key and a value, in the order read;
\* of two members with one key the later counts).
JsonNumber(n) == [type |-> "number", n |-> n, items |-> <<>>, text |-> <<>>]
JsonArray(items) == [type |-> "array", n |-> 0, items |-> items, text |-> <<>>]
JsonString(text) == [type |-> "string", n |-> 0, items |-> <<>>, text |-> text]
JsonMember(key, value) == [type |-> "member", n |-> 0, items |-> <<value>>, text |-> key]
JsonObject(members) == [type |-> "object", n |-> 0, items |-> members, text |-> <<>>]

ParseFailed == [ok |-> FALSE, value |-> JsonNumber(0), pos |-> 0]
Parsed(v, pos) == [ok |-> TRUE, value |-> v, pos |-> pos]

\* Digits s[i..] read as a decimal integer; a leading 0 stands alone.
RECURSIVE ParseDigits(_, _, _)
ParseDigits(s, i, n) ==
    IF i <= Len(s) /\ s[i] \in JsonDigits
    THEN ParseDigits(s, i + 1, n * 10 + (s[i] - 48))
    ELSE Parsed(JsonNumber(n), i)

\* The characters of a string from position i on, up to the closing quote.
\* Control characters end the parse; escapes do not occur in the inputs.
RECURSIVE ParseString(_, _, _)
ParseString(s, i, acc) ==
    IF i > Len(s) THEN ParseFailed
    ELSE IF s[i] = 34 THEN Parsed(JsonString(acc), i + 1)
    ELSE IF s[i] < 32 \/ s[i] = 92 THEN ParseFailed
    ELSE ParseString(s, i + 1, Append(acc, s[i]))

RECURSIVE ParseValue(_, _)
RECURSIVE ParseElements(_, _, _)
RECURSIVE ParseMembers(_, _, _)
ParseValue(s, i) ==
    IF i > Len(s) THEN ParseFailed
    ELSE IF s[i] = 48 THEN Parsed(JsonNumber(0), i + 1)
    ELSE IF s[i] \in JsonDigits THEN ParseDigits(s, i, 0)
    ELSE IF s[i] = 34 THEN ParseString(s, i + 1, <<>>)
    ELSE IF s[i] = 91
         THEN LET j == SkipWhitespace(s, i + 1)
              IN  IF j <= Len(s) /\ s[j] = 93
                  THEN Parsed(JsonArray(<<>>), j + 1)
                  ELSE ParseElements(s, j, <<>>)
    ELSE IF s[i] = 123
         THEN LET j == SkipWhitespace(s, i + 1)
              IN  IF j <= Len(s) /\ s[j] = 125
                  THEN Parsed(JsonObject(<<>>), j + 1)
                  ELSE ParseMembers(s, j, <<>>)
    ELSE ParseFailed

\* The members of an object from position i on, up to the closing brace.
ParseMembers(s, i, acc) ==
    IF i > Len(s) \/ s[i] # 34 THEN ParseFailed
    ELSE LET key == ParseString(s, i + 1, <<>>)
         IN  IF ~key.ok THEN ParseFailed
             ELSE LET c == SkipWhitespace(s, key.pos)
                  IN  IF c > Len(s) \/ s[c] # 58 THEN ParseFailed
                      ELSE LET v == ParseValue(s, SkipWhitespace(s, c + 1))
                           IN  IF ~v.ok THEN ParseFailed
                               ELSE LET k == SkipWhitespace(s, v.pos)
                                        m == JsonMember(key.value.text, v.value)
                                    IN  IF k > Len(s) THEN ParseFailed
                                        ELSE IF s[k] = 44
                                             THEN ParseMembers(s, SkipWhitespace(s, k + 1),
                                                               Append(acc, m))
                                        ELSE IF s[k] = 125
                                             THEN Parsed(JsonObject(Append(acc, m)), k + 1)
                                        ELSE ParseFailed

\* The elements of an array from position i on, up to the closing bracket.
ParseElements(s, i, acc) ==
    LET v == ParseValue(s, i)
    IN  IF ~v.ok THEN ParseFailed
        ELSE LET k == SkipWhitespace(s, v.pos)
             IN  IF k > Len(s) THEN ParseFailed
                 ELSE IF s[k] = 44
                      THEN ParseElements(s, SkipWhitespace(s, k + 1), Append(acc, v.value))
                 ELSE IF s[k] = 93
                      THEN Parsed(JsonArray(Append(acc, v.value)), k + 1)
                 ELSE ParseFailed

\* json.loads(bytes): decode, then one value surrounded by whitespace.
JsonLoads(b) ==
    LET text == Utf8Decode(b)
    IN  IF ~text.ok THEN Failed
        ELSE LET s == text.value
                 v == ParseValue(s, SkipWhitespace(s, 1))
             IN  IF v.ok /\ SkipWhitespace(s, v.pos) = Len(s) + 1
                 THEN Success(v.value)
                 ELSE Failed

\* ------------------------------------------------------ bytes.splitlines
RECURSIVE SplitLinesFrom(_, _, _, _)
SplitLinesFrom(b, i, cur, acc) ==
    IF i > Len(b) THEN (IF cur = <<>> THEN acc ELSE Append(acc, cur))
    ELSE IF b[i] = 13 /\ i + 1 <= Len(b) /\ b[i + 1] = 10
         THEN SplitLinesFrom(b, i + 2, <<>>, Append(acc, cur))
    ELSE IF b[i] \in {10, 13}
         THEN SplitLinesFrom(b, i + 1, <<>>, Append(acc, cur))
    ELSE SplitLinesFrom(b, i + 1, Append(cur, b[i]), acc)

SplitLines(b) == SplitLinesFrom(b, 1, <<>>, <<>>)

\* ------------------------------------------- codecs.iterdecode(data, "utf-8")
\* The incremental decoder: a lead byte ending one line is held back and
\* joined with the next line; a line that decodes to nothing is not yielded;
\* a lead byte left over at the end is an error.
RECURSIVE IterDecodeFrom(_, _, _, _)
IterDecodeFrom(data, k, carry, acc) ==
    IF k > Len(data) THEN (IF carry = <<>> THEN Success(acc) ELSE Failed)
    ELSE LET input == carry \o data[k]
             hold  == Len(input) > 0 /\ input[Len(input)] \in 194..223
             now   == IF hold THEN SubSeq(input, 1, Len(input) - 1) ELSE input
             text  == Utf8Decode(now)
         IN  IF ~text.ok THEN Failed
             ELSE IterDecodeFrom(data, k + 1,
                                 IF hold THEN <<input[Len(input)]>> ELSE <<>>,
                                 IF text.value = <<>> THEN acc
                                 ELSE Append(acc, text.value))

IterDecode(data) == IterDecodeFrom(data, 1, <<>>, <<>>)

\* ------------------------------------------------------------ csv.reader
\* One line without quote characters: its fields between the delimiters.
RECURSIVE SplitFieldsFrom(_, _, _, _, _)
SplitFieldsFrom(line, delimiter, i, cur, acc) ==
    IF i > Len(line) THEN Append(acc, cur)
    ELSE IF line[i] = delimiter
         THEN SplitFieldsFrom(line, delimiter, i + 1, <<>>, Append(acc, cur))
    ELSE SplitFieldsFrom(line, delimiter, i + 1, Append(cur, line[i]), acc)

CsvRow(line, delimiter) == SplitFieldsFrom(line, delimiter, 1, <<>>, <<>>)

\* read_csv(data, delimiter), consumed by list(...): all rows, or the
\* decoding error.
read_csv(data, delimiter) ==
    LET lines == IterDecode(data)
    IN  IF ~lines.ok THEN Failed
        ELSE Success([k \in 1..Len(lines.value) |-> CsvRow(lines.value[k], delimiter)])

\* --------------------------------------------------------------- zipfile
\* An archive is the two bytes "PK" followed by its entries, each a length
\* byte and that many bytes of data.
ZipMagic == <<80, 75>>

RECURSIVE ZipEntriesFrom(_, _, _)
ZipEntriesFrom(b, i, acc) ==
    IF i > Len(b) THEN Success(acc)
    ELSE IF i + b[i] > Len(b) THEN Failed
    ELSE ZipEntriesFrom(b, i + 1 + b[i], Append(acc, SubSeq(b, i + 1, i + b[i])))

\* zipfile.ZipFile(BytesIO(content)): the entries, or BadZipFile.
ZipFile(b) ==
    IF Len(b) >= 2 /\ SubSeq(b, 1, 2) = ZipMagic THEN ZipEntriesFrom(b, 3, <<>>)
    ELSE Failed

\* input_zip.read(input_zip.namelist()[0]): the first entry; BadZipFile or
\* IndexError (no entry) otherwise.
ZipReadFirst(b) ==
    LET z == ZipFile(b)
    IN  IF z.ok /\ Len(z.value) > 0 THEN Success(z.value[1]) ELSE Failed

\* ------------------------------------------------------------ responses
\* A response: status code, header mapping and byte payload.
Response(status_code, headers, content) ==
    [status_code |-> status_code, headers |-> headers, content |-> content]

NoHeaders == [h \in {} |-> ""]
LocationHeader(url) == [h \in {"Location"} |-> url]

\* response.headers.get(key, default)
HeadersGet(headers, key, default) ==
    IF key \in DOMAIN headers THEN headers[key] ELSE default

\* --------------------------------------------------- results of one call
\* A call returns a value of one of the four content variants, or raises.
\* response is the response the call ended with, gets the number of
\* requests.get calls it made.
Return(variant, value, response, gets) ==
    [kind |-> "return", variant |-> variant, value |-> value, error |-> "",
     response |-> response, gets |-> gets]
Raise(error, response, gets) ==
    [kind |-> "raise", variant |-> "", value |-> <<>>, error |-> error,
     response |-> response, gets |-> gets]

\* ----------------------------------------------------------- get_content
\* A variant of InAccept: any 2xx status passes, whatever accept holds.
InAcceptAnySuccess(status_code, accept) ==
    status_code \in accept \/ status_code \in 200..299

\* response.status_code in accept
InAccept(status_code, accept) == status_code \in accept

\* A variant of FollowLocation: the header is compared with None only, so an
\* empty reference is fetched too.
FollowLocationNotNone(get_from_location, location_header) ==
    get_from_location /\ location_header # None

\* get_from_location and a truthy Location header: the reference is fetched.
FollowLocation(get_from_location, location_header) ==
    get_from_location /\ location_header # None /\ location_header # ""

\* A variant of LoadContent: the rows are read from the body itself even
\* when unzip is set.
LoadContentNeverUnzips(content, csv_content, unzip) ==
    IF ~csv_content
    THEN LET parsed == JsonLoads(content)
         IN  [ok |-> parsed.ok, variant |-> "Structured", value |-> parsed.value]
    ELSE LET rows == read_csv(SplitLines(content), Delimiter)
         IN  [ok |-> rows.ok, variant |-> "Tabular", value |-> rows.value]

\* The body of the try block: the structured value, or the rows of the
\* (unzipped) body; not ok when any exception is raised in it.
LoadContent(content, csv_content, unzip) ==
    IF ~csv_content
    THEN LET parsed == JsonLoads(content)
         IN  [ok |-> parsed.ok, variant |-> "Structured", value |-> parsed.value]
    ELSE LET data == IF unzip THEN ZipReadFirst(content) ELSE Success(content)
         IN  IF ~data.ok THEN [ok |-> FALSE, variant |-> "Tabular", value |-> <<>>]
             ELSE LET rows == read_csv(SplitLines(data.value), Delimiter)
                  IN  [ok |-> rows.ok, variant |-> "Tabular", value |-> rows.value]

\* The except block: return response.content.decode("utf-8").
DecodeFallback(response, gets) ==
    LET text == Utf8Decode(response.content)
    IN  IF text.ok THEN Return("Text", text.value, response, gets)
        ELSE Raise("UnicodeDecodeError", response, gets)

\* try: ... except Exception: ... return content
LoadOrFallback(response, csv_content, unzip, gets) ==
    LET loaded == LoadContent(response.content, csv_content, unzip)
    IN  IF loaded.ok THEN Return(loaded.variant, loaded.value, response, gets)
        ELSE DecodeFallback(response, gets)

\* A variant of Materialize: load is ignored and the body always parsed.
MaterializeAlwaysLoads(response, load, csv_content, unzip, gets) ==
    LoadOrFallback(response, csv_content, unzip, gets)

\* if not load: return content
Materialize(response, load, csv_content, unzip, gets) ==
    IF ~load THEN Return("RawBytes", response.content, response, gets)
    ELSE LoadOrFallback(response, csv_content, unzip, gets)

\* A variant of get_content: the status of the response fetched from the
\* Location reference is compared with accept as well.
get_contentAcceptsBoth(response, accept, load, get_from_location, csv_content, unzip, net) ==
    IF InAccept(response.status_code, accept)
    THEN IF FollowLocation(get_from_location,
                           HeadersGet(response.headers, "Location", None))
         THEN IF net.kind = "response"
              THEN IF InAccept(net.response.status_code, accept)
                   THEN Materialize(net.response, load, csv_content, unzip, 1)
                   ELSE Raise("UnexpectedStatus", net.response, 1)
              ELSE Raise(net.kind, response, 1)
         ELSE Materialize(response, load, csv_content, unzip, 0)
    ELSE Raise("UnexpectedStatus", response, 0)

\* One invocation of the undecorated get_content.  net is what requests.get
\* does if it is called: it returns a response or raises.
get_content(response, accept, load, get_from_location, csv_content, unzip, net) ==
    IF InAccept(response.status_code, accept)
    THEN IF FollowLocation(get_from_location,
                           HeadersGet(response.headers, "Location", None))
         THEN IF net.kind = "response"
              THEN Materialize(net.response, load, csv_content, unzip, 1)
              ELSE Raise(net.kind, response, 1)
         ELSE Materialize(response, load, csv_content, unzip, 0)
    ELSE Raise("UnexpectedStatus", response, 0)

\* ------------------------------------------------------------------ retry
\* A variant of LoopGuard: one guarded pass too many.
LoopGuardInclusive(attempt) == attempt <= Times

\* while attempt < times
LoopGuard(attempt) == attempt < Times

\* A variant of Catches: except Exception.
CatchesAny(error) == TRUE

\* except requests.exceptions.ConnectionError
Catches(error) == error = "ConnectionError"

\* A variant of NextDelay: the delay grows by one.
NextDelayLinear(delay) == delay + 1

\* delay *= 2
NextDelay(delay) == delay * 2

\* =========================================================================
\* The call get_content(response, accept, load, get_from_location, verify,
\* csv_content, unzip) through its retry(times=10) wrapper.
\* The outer exception_handler decorator lives in
\* api_call/arium/api/exceptions.py, which is not among the sources: the
\* model is of get_content as decorated by retry.  verify is handed to
\* requests.get unread and is left out.
\* =========================================================================
VARIABLES
    response,           \* argument: the response to decode
    accept,             \* argument: the accepted status codes
    load,               \* argument
    get_from_location,  \* argument
    csv_content,        \* argument
    unzip,              \* argument
    served,             \* the response the Location reference answers with
    attempt,            \* retry: failed attempts so far
    delay,              \* retry: the next delay
    pc,                 \* "retry" inside the wrapper, "done" after it
    result,             \* how the wrapped call ended
    log                 \* the invocations, GETs and sleeps so far, in order

\* One run of a polling loop (asset_polling, calc_asset_polling, calc_polling,
\* _assets_db_polling).
VARIABLES
    poller,             \* the polling function that runs
    ppc,                \* "first" before the loop, "loop" at the while test,
                        \* "returned" or "raised" after it
    current,            \* the local asset / response / content
    observed,           \* what the status checks returned so far, in order
    plog,               \* the status checks and sleeps so far, in order
    presult             \* how the poller ended

\* The server's side of a polling run and the operations built on the pollers.
VARIABLES
    job,                \* the status the server holds for the job or asset
    op,                 \* the operation that runs
    oargs,              \* its arguments
    oattempt,           \* its retry wrapper: failed attempts so far
    odelay,             \* its retry wrapper: the next delay
    opc,                \* its position
    olog,               \* its invocations, requests and sleeps so far, in order
    put_status,         \* the status of the response requests.put gave in the
                        \* invocation that runs (0: none yet)
    oresult             \* how it ended

args == <<response, accept, load, get_from_location, csv_content, unzip, served>>
callvars == <<response, accept, load, get_from_location, csv_content, unzip, served,
              attempt, delay, pc, result, log>>
pollvars == <<poller, ppc, current, observed, plog, presult>>
\* What a step inside an operation leaves alone.
opargs == <<op, oargs>>
opretry == <<oattempt, odelay>>
opvars == <<job, op, oargs, oattempt, odelay, opc, olog, put_status, oresult>>
vars == <<callvars, pollvars, opvars>>

\* ---------------------------------------------------------------- inputs
ByteAlphabet == {49, 44, 10, 195}

SeqsUpTo(S, n) == UNION {[1..k -> S] : k \in 0..n}

\* An archive of the given entries (the inverse of ZipFile).
RECURSIVE ZipArchiveFrom(_, _)
ZipArchiveFrom(entries, k) ==
    IF k > Len(entries) THEN <<>>
    ELSE <<Len(entries[k])>> \o entries[k] \o ZipArchiveFrom(entries, k + 1)
ZipArchive(entries) == ZipMagic \o ZipArchiveFrom(entries, 1)

\* "a,b\n1,2\n"
SampleCsv == <<97, 44, 98, 10, 49, 44, 50, 10>>
\* [["a","b"],["1","2"]]
SampleRows == << << <<97>>, <<98>> >>, << <<49>>, <<50>> >> >>
\* "[1,1]"
SampleJson == <<91, 49, 44, 49, 93>>

SampleBodies ==
    { SampleCsv, ZipArchive(<<SampleCsv>>), ZipArchive(<<SampleCsv, <<49>> >>),
      ZipArchive(<<>>), ZipArchive(<< <<195>> >>),
      SampleJson, <<91, 93>>, <<91, 49>>, <<195, 169>> }

Bodies == SeqsUpTo(ByteAlphabet, MaxBodyLen) \cup SampleBodies

\* The body "1" that one of the two responses carries when both exist.
PlainBody == <<49>>

StatusCodes == {200, 202, 404}
HeaderMaps == {NoHeaders, LocationHeader(""), LocationHeader("https://store/object")}

NoResponse == Response(0, NoHeaders, <<>>)
NoResult == [kind |-> "none", variant |-> "", value |-> <<>>, error |-> "",
             response |-> NoResponse, gets |-> 0]

Event(name, d) == [event |-> name, delay |-> d]

\* An operation without arguments that matter.
NoArgs == [a \in {} |-> FALSE]

CallInit ==
    /\ response \in {Response(st, h, b) : st \in StatusCodes, h \in HeaderMaps, b \in Bodies}
    /\ accept \in {DefaultAccept, PollingAccept}
    /\ load \in BOOLEAN
    /\ get_from_location \in BOOLEAN
    /\ csv_content \in BOOLEAN
    /\ unzip \in BOOLEAN
    /\ IF HeadersGet(response.headers, "Location", None) \in {None, ""}
       THEN served = NoResponse
       ELSE /\ served \in {Response(st, NoHeaders, b) : st \in {200, 404}, b \in Bodies}
            /\ response.content = PlainBody \/ served.content = PlainBody
    /\ attempt = 0
    /\ delay = 1
    /\ pc = "retry"
    /\ result = NoResult
    /\ log = <<>>

\* What requests.get(url=location_header, verify=verify) can do.
NetOutcomes ==
    {[kind |-> k, response |-> served] :
        k \in {"response", "ConnectionError", "RequestException"}}

\* The events of one invocation of the wrapped function.
CallEvents(r) ==
    <<Event("invoke", 0)>> \o (IF r.gets = 1 THEN <<Event("GET", 0)>> ELSE <<>>)

\* One pass of the while loop: return func(...), or on a connection error
\* count the attempt, sleep and double the delay.
GuardedInvocation ==
    /\ pc = "retry"
    /\ LoopGuard(attempt)
    /\ \E net \in NetOutcomes :
         LET r == get_content(response, accept, load, get_from_location,
                              csv_content, unzip, net)
         IN  IF r.kind = "raise" /\ Catches(r.error)
             THEN /\ attempt' = attempt + 1
                  /\ log' = log \o CallEvents(r) \o <<Event("sleep", delay)>>
                  /\ delay' = NextDelay(delay)
                  /\ UNCHANGED <<pc, result>>
             ELSE /\ pc' = "done"
                  /\ result' = r
                  /\ log' = log \o CallEvents(r)
                  /\ UNCHANGED <<attempt, delay>>
    /\ UNCHANGED <<args, pollvars, opvars>>

\* After the loop: return func(...), unguarded.
FinalInvocation ==
    /\ pc = "retry"
    /\ ~LoopGuard(attempt)
    /\ \E net \in NetOutcomes :
         LET r == get_content(response, accept, load, get_from_location,
                              csv_content, unzip, net)
         IN  /\ pc' = "done"
             /\ result' = r
             /\ log' = log \o CallEvents(r)
    /\ UNCHANGED <<attempt, delay>>
    /\ UNCHANGED <<args, pollvars, opvars>>

\* No get_content call is made (the polling runs are looked at alone).
CallIdle ==
    /\ response = NoResponse
    /\ accept = DefaultAccept
    /\ load = FALSE
    /\ get_from_location = FALSE
    /\ csv_content = FALSE
    /\ unzip = FALSE
    /\ served = NoResponse
    /\ attempt = 0
    /\ delay = 1
    /\ pc = "idle"
    /\ result = NoResult
    /\ log = <<>>

\* =========================================================================
\* The polling loops.  A status check asks the transport for the job's or
\* asset's record; the transport answers with a status code and a payload
\* (the mapping its JSON body decodes to) or raises.  Every check takes
\* serial, its number in the run, so that payloads can be told apart.
\* =========================================================================
\* Most status checks in one run.
MaxChecks == 4

Labels == {"uploading", "processing", "ready", "failed"}
EmptyMapping == [k \in {} |-> ""]
Mapping(keys, label) == [k \in keys |-> label]

CheckResponse(status_code, payload, serial) ==
    [status_code |-> status_code, payload |-> payload, serial |-> serial]
NoCheck == CheckResponse(0, EmptyMapping, 0)

\* The payloads the server can answer a poller's status check with.
PayloadsFor(p) ==
    CASE p = "asset_polling" ->
            {Mapping({"status"}, l) : l \in Labels} \cup {EmptyMapping}
      [] p = "_assets_db_polling" ->
            {Mapping(keys, l) : keys \in {{"state"}, {"state", "ids"}},
                                l \in Labels} \cup {EmptyMapping}
      [] p = "calc_asset_polling" ->
            {Mapping(keys, l) : keys \in {{"stats"}, {"stats", "status"}},
                                l \in {"processing", "ready", "failed"}}
      [] OTHER -> {EmptyMapping}

\* What client.get_request(endpoint) can do at the check with this serial.
Transport(p, serial) ==
    {[kind |-> "response", response |-> CheckResponse(st, pl, serial)] :
        st \in StatusCodes, pl \in PayloadsFor(p)}
    \cup {[kind |-> "ConnectionError", response |-> NoCheck]}

\* response = client.get_request(...); content = get_content(response, accept):
\* the transport's error, UnexpectedStatus, or the decoded record.
FetchContent(net, accepted) ==
    IF net.kind # "response" THEN [ok |-> FALSE, error |-> net.kind, content |-> NoCheck]
    ELSE IF InAccept(net.response.status_code, accepted)
         THEN [ok |-> TRUE, error |-> "", content |-> net.response]
    ELSE [ok |-> FALSE, error |-> "UnexpectedStatus", content |-> NoCheck]

\* asset_get(client, collection, asset_id, status=False)
asset_get(net) == FetchContent(net, DefaultAccept)

\* response = client.get_request(...), with no decoding (calc_polling).
GetRequest(net) ==
    IF net.kind # "response" THEN [ok |-> FALSE, error |-> net.kind, content |-> NoCheck]
    ELSE [ok |-> TRUE, error |-> "", content |-> net.response]

\* A variant of Pending: "processing" is taken for finished.
PendingUploadingOnly(label) == label = "uploading"

\* A variant of Pending: every label but "ready" keeps the loop going.
PendingUnlessReady(label) == label # "ready"

\* A variant of Pending: "uploading" is taken for finished.
PendingProcessingOnly(label) == label = "processing"

\* ... in ("uploading", "processing")
Pending(label) == label \in {"uploading", "processing"}

PollEvent(name, d) == [event |-> name, delay |-> d]

\* What a poller returns: a record a status check gave, or one of its fields.
ContentValue(content) == [type |-> "content", content |-> content, field |-> ""]
FieldValue(label) == [type |-> "field", content |-> NoCheck, field |-> label]

PollReturn(value) == [kind |-> "return", value |-> value, error |-> ""]
PollRaise(error) == [kind |-> "raise", value |-> ContentValue(NoCheck), error |-> error]
NoPollResult == [kind |-> "none", value |-> ContentValue(NoCheck), error |-> ""]

\* No poller runs (the get_content calls are looked at alone).
PollIdle ==
    /\ poller = "none"
    /\ ppc = "idle"
    /\ current = NoCheck
    /\ observed = <<>>
    /\ plog = <<>>
    /\ presult = NoPollResult

PollInit ==
    /\ poller \in {"asset_polling", "calc_asset_polling", "calc_polling",
                   "_assets_db_polling"}
    /\ ppc = IF poller = "calc_asset_polling" THEN "loop" ELSE "first"
    \* calc_asset_polling is handed the asset it polls for.
    /\ current \in IF poller = "calc_asset_polling"
                   THEN {CheckResponse(200, pl, 0) : pl \in PayloadsFor(poller)}
                   ELSE {NoCheck}
    /\ observed = <<>>
    /\ plog = <<>>
    /\ presult = NoPollResult

\* The poller ends with the error of a failed status check.
CheckFailed(r) ==
    /\ ppc' = "raised"
    /\ presult' = PollRaise(r.error)
    /\ plog' = Append(plog, PollEvent("check", 0))
    /\ UNCHANGED <<current, observed>>

\* ---------------------------------------------------------- asset_polling
\* asset = asset_get(...)
AssetPollingFirst ==
    /\ poller = "asset_polling" /\ ppc = "first"
    /\ \E net \in Transport(poller, Len(observed) + 1) :
         LET r == asset_get(net)
         IN  IF ~r.ok THEN CheckFailed(r)
             ELSE /\ current' = r.content
                  /\ observed' = Append(observed, r.content)
                  /\ plog' = Append(plog, PollEvent("check", 0))
                  /\ ppc' = "loop"
                  /\ UNCHANGED presult
    /\ UNCHANGED <<poller, callvars, opvars>>

\* while asset["status"] in (...): asset = asset_get(...); sleep(1.0)
AssetPollingLoop ==
    /\ poller = "asset_polling" /\ ppc = "loop"
    /\ "status" \in DOMAIN current.payload
    /\ Pending(current.payload["status"])
    /\ Len(observed) < MaxChecks
    /\ \E net \in Transport(poller, Len(observed) + 1) :
         LET r == asset_get(net)
         IN  IF ~r.ok THEN CheckFailed(r)
             ELSE /\ current' = r.content
                  /\ observed' = Append(observed, r.content)
                  /\ plog' = plog \o <<PollEvent("check", 0), PollEvent("sleep", 1)>>
                  /\ UNCHANGED <<ppc, presult>>
    /\ UNCHANGED <<poller, callvars, opvars>>

\* The loop is left: return asset["status"] (a record without the key ends
\* the while test with KeyError).
AssetPollingReturn ==
    /\ poller = "asset_polling" /\ ppc = "loop"
    /\ IF "status" \notin DOMAIN current.payload
       THEN ppc' = "raised" /\ presult' = PollRaise("KeyError")
       ELSE /\ ~Pending(current.payload["status"])
            /\ ppc' = "returned"
            /\ presult' = PollReturn(FieldValue(current.payload["status"]))
    /\ UNCHANGED <<poller, current, observed, plog, callvars, opvars>>

\* ----------------------------------------------------- calc_asset_polling
\* while asset["stats"] == "processing": sleep(5.0); asset = get_content(
\* client.get_request(...))
CalcAssetPollingLoop ==
    /\ poller = "calc_asset_polling" /\ ppc = "loop"
    /\ "stats" \in DOMAIN current.payload
    /\ current.payload["stats"] = "processing"
    /\ Len(observed) < MaxChecks
    /\ \E net \in Transport(poller, Len(observed) + 1) :
         LET r == FetchContent(net, DefaultAccept)
         IN  IF ~r.ok
             THEN /\ ppc' = "raised"
                  /\ presult' = PollRaise(r.error)
                  /\ plog' = plog \o <<PollEvent("sleep", 5), PollEvent("check", 0)>>
                  /\ UNCHANGED <<current, observed>>
             ELSE /\ current' = r.content
                  /\ observed' = Append(observed, r.content)
                  /\ plog' = plog \o <<PollEvent("sleep", 5), PollEvent("check", 0)>>
                  /\ UNCHANGED <<ppc, presult>>
    /\ UNCHANGED <<poller, callvars, opvars>>

\* The loop is left: the log line reads asset['status'], then return asset.
CalcAssetPollingReturn ==
    /\ poller = "calc_asset_polling" /\ ppc = "loop"
    /\ IF "stats" \notin DOMAIN current.payload
       THEN ppc' = "raised" /\ presult' = PollRaise("KeyError")
       ELSE /\ current.payload["stats"] # "processing"
            /\ IF "status" \notin DOMAIN current.payload
               THEN ppc' = "raised" /\ presult' = PollRaise("KeyError")
               ELSE ppc' = "returned" /\ presult' = PollReturn(ContentValue(current))
    /\ UNCHANGED <<poller, current, observed, plog, callvars, opvars>>

\* ----------------------------------------------------------- calc_polling
\* response = client.get_request(...)
CalcPollingFirst ==
    /\ poller = "calc_polling" /\ ppc = "first"
    /\ \E net \in Transport(poller, Len(observed) + 1) :
         LET r == GetRequest(net)
         IN  IF ~r.ok THEN CheckFailed(r)
             ELSE /\ current' = r.content
                  /\ observed' = Append(observed, r.content)
                  /\ plog' = Append(plog, PollEvent("check", 0))
                  /\ ppc' = "loop"
                  /\ UNCHANGED presult
    /\ UNCHANGED <<poller, callvars, opvars>>

\* while response.status_code == HTTPStatus.ACCEPTED: sleep(1.0);
\* response = client.get_request(...)
CalcPollingLoop ==
    /\ poller = "calc_polling" /\ ppc = "loop"
    /\ current.status_code = 202
    /\ Len(observed) < MaxChecks
    /\ \E net \in Transport(poller, Len(observed) + 1) :
         LET r == GetRequest(net)
         IN  IF ~r.ok
             THEN /\ ppc' = "raised"
                  /\ presult' = PollRaise(r.error)
                  /\ plog' = plog \o <<PollEvent("sleep", 1), PollEvent("check", 0)>>
                  /\ UNCHANGED <<current, observed>>
             ELSE /\ current' = r.content
                  /\ observed' = Append(observed, r.content)
                  /\ plog' = plog \o <<PollEvent("sleep", 1), PollEvent("check", 0)>>
                  /\ UNCHANGED <<ppc, presult>>
    /\ UNCHANGED <<poller, callvars, opvars>>

\* The loop is left: return response.
CalcPollingReturn ==
    /\ poller = "calc_polling" /\ ppc = "loop"
    /\ current.status_code # 202
    /\ ppc' = "returned"
    /\ presult' = PollReturn(ContentValue(current))
    /\ UNCHANGED <<poller, current, observed, plog, callvars, opvars>>

\* ----------------------------------------------------- _assets_db_polling
\* response = client.get_request(...); content = get_content(response, accept)
AssetsDbPollingFirst ==
    /\ poller = "_assets_db_polling" /\ ppc = "first"
    /\ \E net \in Transport(poller, Len(observed) + 1) :
         LET r == FetchContent(net, PollingAccept)
         IN  IF ~r.ok THEN CheckFailed(r)
             ELSE /\ current' = r.content
                  /\ observed' = Append(observed, r.content)
                  /\ plog' = Append(plog, PollEvent("check", 0))
                  /\ ppc' = "loop"
                  /\ UNCHANGED presult
    /\ UNCHANGED <<poller, callvars, opvars>>

\* while content["state"] in (...): response = ...; content = ...; sleep(1.0)
AssetsDbPollingLoop ==
    /\ poller = "_assets_db_polling" /\ ppc = "loop"
    /\ "state" \in DOMAIN current.payload
    /\ Pending(current.payload["state"])
    /\ Len(observed) < MaxChecks
    /\ \E net \in Transport(poller, Len(observed) + 1) :
         LET r == FetchContent(net, PollingAccept)
         IN  IF ~r.ok THEN CheckFailed(r)
             ELSE /\ current' = r.content
                  /\ observed' = Append(observed, r.content)
                  /\ plog' = plog \o <<PollEvent("check", 0), PollEvent("sleep", 1)>>
                  /\ UNCHANGED <<ppc, presult>>
    /\ UNCHANGED <<poller, callvars, opvars>>

\* A variant of AssetsDbPollingReturn: the content of the first status check
\* is returned.
AssetsDbPollingReturnFirst ==
    /\ poller = "_assets_db_polling" /\ ppc = "loop"
    /\ IF "state" \notin DOMAIN current.payload
       THEN ppc' = "raised" /\ presult' = PollRaise("KeyError")
       ELSE /\ ~Pending(current.payload["state"])
            /\ ppc' = "returned"
            /\ presult' = PollReturn(ContentValue(observed[1]))
    /\ UNCHANGED <<poller, current, observed, plog, callvars, opvars>>

\* The loop is left: return content.
AssetsDbPollingReturn ==
    /\ poller = "_assets_db_polling" /\ ppc = "loop"
    /\ IF "state" \notin DOMAIN current.payload
       THEN ppc' = "raised" /\ presult' = PollRaise("KeyError")
       ELSE /\ ~Pending(current.payload["state"])
            /\ ppc' = "returned"
            /\ presult' = PollReturn(ContentValue(current))
    /\ UNCHANGED <<poller, current, observed, plog, callvars, opvars>>

\* =========================================================================
\* asset_list(client, collection, latest): the request through the transport,
\* the get_content call with its defaults, and the shaping of the content.
\* =========================================================================
KeyCount == <<99, 111, 117, 110, 116>>
KeyTotal == <<116, 111, 116, 97, 108>>
KeyContent == <<99, 111, 110, 116, 101, 110, 116>>

\* isinstance(content, dict)
IsMapping(outcome) ==
    outcome.variant = "Structured" /\ outcome.value.type = "object"

\* key in content
HasKey(object, key) == \E i \in 1..Len(object.items) : object.items[i].text = key

\* content[key]: the value of the last member with the key.
DictGet(object, key) ==
    LET last == CHOOSE i \in 1..Len(object.items) :
                    /\ object.items[i].text = key
                    /\ \A j \in (i + 1)..Len(object.items) : object.items[j].text # key
    IN  object.items[last].items[1]

\* A variant of asset_list: the type of the content is not looked at.
asset_listAnyContent(outcome) ==
    IF outcome.kind = "raise" THEN outcome
    ELSE IF IsMapping(outcome) /\ HasKey(outcome.value, KeyContent)
         THEN Return("Structured", DictGet(outcome.value, KeyContent),
                     outcome.response, outcome.gets)
    ELSE outcome

\* What asset_list makes of the outcome of its get_content call: an exception
\* passes through; a mapping is logged (count, total) and its content
\* returned; anything else raises Exception("Unexpected content type: ...").
asset_list(outcome) ==
    IF outcome.kind = "raise" THEN outcome
    ELSE IF IsMapping(outcome)
         THEN IF /\ HasKey(outcome.value, KeyCount)
                 /\ HasKey(outcome.value, KeyTotal)
                 /\ HasKey(outcome.value, KeyContent)
              THEN Return("Structured", DictGet(outcome.value, KeyContent),
                          outcome.response, outcome.gets)
              ELSE Raise("KeyError", outcome.response, outcome.gets)
    ELSE Raise("UnexpectedContentType", outcome.response, outcome.gets)

\* {"count":2,"total":10,"content":[1,2]}
SampleListing == <<123, 34, 99, 111, 117, 110, 116, 34, 58, 50, 44, 34, 116, 111, 116, 97, 108, 34, 58, 49, 48, 44, 34, 99, 111, 110, 116, 101, 110, 116, 34, 58, 91, 49, 44, 50, 93, 125>>
\* {"content":[1]}
SampleContentOnly == <<123, 34, 99, 111, 110, 116, 101, 110, 116, 34, 58, 91, 49, 93, 125>>

ListBodies ==
    { SampleListing, SampleContentOnly, <<123, 125>>, SampleJson, <<49>>,
      <<49, 44, 49>>, <<195>>, <<>> }

\* What client.get_request(endpoint) can do for asset_list.
ListTransport ==
    {[kind |-> "response", response |-> Response(st, h, b)] :
        st \in StatusCodes, h \in HeaderMaps, b \in ListBodies}
    \cup {[kind |-> "ConnectionError", response |-> NoResponse]}

ListInit ==
    /\ CallIdle /\ PollIdle
    /\ job = "none"
    /\ op = "asset_list" /\ oargs = NoArgs
    /\ oattempt = 0 /\ odelay = 1
    /\ opc = "request" /\ olog = <<>>
    /\ put_status = 0
    /\ oresult = NoResult

\* response = client.get_request(endpoint=endpoint), then the call
\* get_content(response=response) starts.
AssetListRequest ==
    /\ op = "asset_list" /\ opc = "request"
    /\ \E net \in ListTransport :
         IF net.kind # "response"
         THEN /\ opc' = "done"
              /\ oresult' = Raise(net.kind, NoResponse, 0)
              /\ UNCHANGED callvars
         ELSE /\ response' = net.response
              /\ accept' = DefaultAccept
              /\ load' = TRUE /\ get_from_location' = TRUE
              /\ csv_content' = FALSE /\ unzip' = TRUE
              /\ IF HeadersGet(net.response.headers, "Location", None) \in {None, ""}
                 THEN served' = NoResponse
                 ELSE served' \in {Response(st, NoHeaders, b) :
                                     st \in {200, 404}, b \in ListBodies}
              /\ attempt' = 0 /\ delay' = 1
              /\ pc' = "retry"
              /\ result' = NoResult /\ log' = <<>>
              /\ opc' = "content"
              /\ UNCHANGED oresult
    /\ UNCHANGED <<pollvars, job, opargs, opretry, olog, put_status>>

\* if isinstance(content, dict): ... return content["content"] else: raise
AssetListReturn ==
    /\ op = "asset_list" /\ opc = "content"
    /\ pc = "done"
    /\ opc' = "done"
    /\ oresult' = asset_list(result)
    /\ UNCHANGED <<callvars, pollvars, job, opargs, opretry, olog, put_status>>

\* =========================================================================
\* get_content_from_url(url, csv_output, raw, delimiter, verify) under its
\* retry(times=10) wrapper.  The function is a generator function: the call
\* the wrapper makes returns the generator and runs nothing of the body; the
\* body, with its requests.get, runs when the consumer asks for the items.
\* =========================================================================
\* func(*args, **kwargs) for a generator function: the generator object.
CreateGenerator == [kind |-> "return", variant |-> "generator", value |-> <<>>,
                    error |-> "", response |-> NoResponse, gets |-> 0]

\* What requests.get(url, verify=verify) can do.
UrlTransport ==
    {[kind |-> "response", response |-> Response(st, NoHeaders, b)] :
        st \in StatusCodes, b \in Bodies}
    \cup {[kind |-> k, response |-> NoResponse] :
            k \in {"ConnectionError", "RequestException"}}

\* The items the body yields from the fetched response: the rows of
\* get_csv_content, the response itself when raw, or the one value of
\* get_content(resp).
UrlItems(csv_output, raw, resp) ==
    IF raw THEN Return("Response", resp.content, resp, 1)
    ELSE IF csv_output
         THEN LET rows == read_csv(SplitLines(resp.content), Delimiter)
              IN  IF rows.ok THEN Return("Tabular", rows.value, resp, 1)
                  ELSE Raise("UnicodeDecodeError", resp, 1)
    ELSE LET r == get_content(resp, DefaultAccept, TRUE, TRUE, FALSE, TRUE,
                              [kind |-> "none", response |-> NoResponse])
         IN  [r EXCEPT !.gets = 1]

UrlInit ==
    /\ CallIdle /\ PollIdle
    /\ job = "none"
    /\ op = "get_content_from_url"
    /\ oargs \in [csv_output : BOOLEAN, raw : BOOLEAN]
    /\ oattempt = 0 /\ odelay = 1
    /\ opc = "call" /\ olog = <<>>
    /\ put_status = 0
    /\ oresult = NoResult

\* The call through the wrapper: one pass of `while attempt < times: try:
\* return func(...)`, in which func hands back the generator.
UrlCall ==
    /\ op = "get_content_from_url" /\ opc = "call"
    /\ LoopGuard(oattempt)
    /\ LET r == CreateGenerator
       IN  IF r.kind = "raise" /\ Catches(r.error)
           THEN /\ oattempt' = oattempt + 1
                /\ olog' = olog \o <<Event("invoke", 0), Event("sleep", odelay)>>
                /\ odelay' = NextDelay(odelay)
                /\ UNCHANGED <<opc, oresult>>
           ELSE /\ opc' = "generator"
                /\ olog' = Append(olog, Event("invoke", 0))
                /\ UNCHANGED <<opretry, oresult>>
    /\ UNCHANGED <<callvars, pollvars, job, opargs, put_status>>

\* The consumer takes the items: the body runs, outside the wrapper, which
\* returned at the call.  An exception of requests.get reaches the consumer.
UrlConsume ==
    /\ op = "get_content_from_url" /\ opc = "generator"
    /\ \E net \in UrlTransport :
         /\ olog' = Append(olog, Event("GET", 0))
         /\ opc' = "done"
         /\ oresult' = IF net.kind # "response" THEN Raise(net.kind, NoResponse, 1)
                        ELSE UrlItems(oargs.csv_output, oargs.raw, net.response)
    /\ UNCHANGED <<callvars, pollvars, job, opargs, opretry, put_status>>

\* =========================================================================
\* A server whose job moves forward only: its status goes from uploading to
\* processing to ready or failed and stays there, and every status check
\* succeeds and reports the status the server holds.
\* =========================================================================
\* No job is looked at.
OpNone ==
    /\ op = "none" /\ oargs = NoArgs
    /\ oattempt = 0 /\ odelay = 1
    /\ opc = "idle" /\ olog = <<>>
    /\ put_status = 0
    /\ oresult = NoResult
OpIdle == job = "none" /\ OpNone

JobPending == job \in {"uploading", "processing"}

JobAdvance ==
    /\ JobPending
    /\ job' \in IF job = "uploading" THEN {"processing", "ready", "failed"}
                 ELSE {"ready", "failed"}
    /\ UNCHANGED <<callvars, pollvars, opargs, opretry, opc, olog, put_status, oresult>>

\* The record a successful status check of poller p gives for the job.
\* calc_polling reads the job from the status code: 202 while it is pending.
ServerAnswer(p, serial) ==
    CASE p = "asset_polling" -> CheckResponse(200, Mapping({"status"}, job), serial)
      [] p = "_assets_db_polling" -> CheckResponse(200, Mapping({"state"}, job), serial)
      [] p = "calc_asset_polling" ->
            CheckResponse(200, Mapping({"stats", "status"}, job), serial)
      [] OTHER -> CheckResponse(IF JobPending THEN 202 ELSE 200, EmptyMapping, serial)

\* A step of the poller in which the check, if there is one, succeeds and
\* reports the job.  The job is over before the last check the bound allows.
SucceedingCheck ==
    /\ ppc' # "raised"
    /\ observed' # observed =>
          /\ observed'[Len(observed')] = ServerAnswer(poller, Len(observed'))
          /\ Len(observed') = MaxChecks => ~JobPending

\* =========================================================================
\* asset_post(client, collection, asset_name, data, params, presigned, wait,
\* verify) under its retry(times=10) wrapper: the POST through the transport,
\* get_content of its response, and with a Location header the PUT of the
\* data, the polling and the final asset_get.  An exception anywhere in the
\* body reaches the wrapper, which runs the whole body again when it is a
\* connection error.  presigned and params only shape the POST and are left
\* out.  The server's asset is new, with status uploading, after every POST.
\* =========================================================================
\* Most failed attempts after which a request later than the POST can still
\* raise a connection error (the POST itself can at every attempt).
MaxLateFailures == 1

KeyId == <<105, 100>>
\* {"id":"a"}
SampleAsset == <<123, 34, 105, 100, 34, 58, 34, 97, 34, 125>>

PostBodies == {SampleAsset, <<123, 125>>, <<49>>}

\* What client.post_request(endpoint, json) can do.
PostTransport ==
    {[kind |-> "response", response |-> Response(st, h, b)] :
        st \in StatusCodes, h \in HeaderMaps, b \in PostBodies}
    \cup {[kind |-> "ConnectionError", response |-> NoResponse]}

\* The statuses a response to the PUT is given with: an accepted upload and
\* a rejected one.
PutStatuses == {200, 403}

\* What requests.put(url=location_header, data=stream, verify=verify) can do:
\* a URL without scheme is refused before anything is sent (MissingSchema, a
\* RequestException).
PutTransport(url) ==
    IF url \in {None, ""}
    THEN {[kind |-> "RequestException", status_code |-> 0]}
    ELSE {[kind |-> "response", status_code |-> s] : s \in PutStatuses}
         \cup {[kind |-> k, status_code |-> 0] :
                  k \in {"ConnectionError", "RequestException"}}

\* A variant of PutError: the status of the response is checked, as after
\* raise_for_status().
PutErrorRaiseForStatus(put) ==
    IF put.kind # "response" THEN put.kind
    ELSE IF put.status_code >= 400 THEN "HTTPError" ELSE ""

\* The exception the statement requests.put(...) leaves the body with, ""
\* for none: the response it returns is bound to no name and never read.
PutError(put) == IF put.kind = "response" THEN "" ELSE put.kind

\* content["id"]: the id, KeyError for a mapping without it, TypeError for a
\* content that is no mapping.
ContentId(outcome) ==
    IF ~IsMapping(outcome) THEN [ok |-> FALSE, error |-> "TypeError"]
    ELSE IF ~HasKey(outcome.value, KeyId) THEN [ok |-> FALSE, error |-> "KeyError"]
    ELSE [ok |-> TRUE, error |-> ""]

\* A variant of TakesDirectPath: an empty Location counts as none.
TakesDirectPathFalsy(location_header) == location_header \in {None, ""}

\* if location_header is None
TakesDirectPath(location_header) == location_header = None

\* A variant of WaitsForUpload: the polling is left out.
WaitsForUploadNever(wait) == FALSE

\* if wait
WaitsForUpload(wait) == wait

\* The wrapper catches the error inside its loop and runs the body again.
RetriesBody(error, failed) == Catches(error) /\ LoopGuard(failed)

PostInit ==
    /\ CallIdle /\ PollIdle
    /\ job = "none"
    /\ op = "asset_post"
    /\ oargs \in [wait : BOOLEAN, data : {"text", "mapping"}]
    /\ oattempt = 0 /\ odelay = 1
    /\ opc = "call" /\ olog = <<>>
    /\ put_status = 0
    /\ oresult = NoResult

\* An exception leaves the body after the given events: inside the loop a
\* connection error is counted and slept on and the body starts again with
\* nothing kept; otherwise the exception leaves asset_post.
BodyRaises(error, events) ==
    IF RetriesBody(error, oattempt)
    THEN /\ oattempt' = oattempt + 1
         /\ olog' = olog \o events \o <<Event("sleep", odelay)>>
         /\ odelay' = NextDelay(odelay)
         /\ opc' = "call"
         /\ put_status' = 0
         /\ UNCHANGED oresult
         /\ response' = NoResponse /\ accept' = DefaultAccept
         /\ load' = FALSE /\ get_from_location' = FALSE
         /\ csv_content' = FALSE /\ unzip' = FALSE
         /\ served' = NoResponse
         /\ attempt' = 0 /\ delay' = 1 /\ pc' = "idle"
         /\ result' = NoResult /\ log' = <<>>
         /\ poller' = "none" /\ ppc' = "idle"
         /\ current' = NoCheck /\ observed' = <<>> /\ plog' = <<>>
         /\ presult' = NoPollResult
         /\ job' = "none"
    ELSE /\ opc' = "done"
         /\ oresult' = Raise(error, response, 0)
         /\ olog' = olog \o events
         /\ UNCHANGED <<callvars, pollvars, job, opretry, put_status>>

\* response = client.post_request(endpoint=endpoint, json=json_data), then
\* the call get_content(response, get_from_location=False) starts.
PostRequest ==
    /\ op = "asset_post" /\ opc = "call"
    /\ \E net \in PostTransport :
         IF net.kind # "response"
         THEN BodyRaises(net.kind, <<Event("invoke", 0), Event("POST", 0)>>)
         ELSE /\ response' = net.response
              /\ accept' = DefaultAccept
              /\ load' = TRUE /\ get_from_location' = FALSE
              /\ csv_content' = FALSE /\ unzip' = TRUE
              /\ served' = NoResponse
              /\ attempt' = 0 /\ delay' = 1
              /\ pc' = "retry"
              /\ result' = NoResult /\ log' = <<>>
              /\ opc' = "content"
              /\ olog' = olog \o <<Event("invoke", 0), Event("POST", 0)>>
              /\ job' = "uploading"
              /\ UNCHANGED <<pollvars, opretry, put_status, oresult>>
    /\ UNCHANGED opargs

\* if location_header is None: return content; else: the PUT of the data.
PostUpload ==
    /\ op = "asset_post" /\ opc = "content"
    /\ pc = "done"
    /\ LET location_header == HeadersGet(response.headers, "Location", None)
           id == ContentId(result)
       IN  IF result.kind = "raise" THEN BodyRaises(result.error, <<>>)
           ELSE IF TakesDirectPath(location_header)
                THEN IF ~id.ok THEN BodyRaises(id.error, <<>>)
                     ELSE /\ opc' = "done"
                          /\ oresult' = result
                          /\ UNCHANGED <<callvars, pollvars, job, opretry, olog,
                                         put_status>>
           ELSE IF oargs.data # "text" THEN BodyRaises("AttributeError", <<>>)
           ELSE \E put \in PutTransport(location_header) :
                  /\ put.kind = "ConnectionError" => oattempt < MaxLateFailures
                  /\ IF PutError(put) # ""
                     THEN BodyRaises(PutError(put), <<Event("PUT", 0)>>)
                     ELSE /\ opc' = "uploaded"
                          /\ put_status' = put.status_code
                          /\ olog' = Append(olog, Event("PUT", 0))
                          /\ UNCHANGED <<callvars, pollvars, job, opretry, oresult>>
    /\ UNCHANGED opargs

\* After the PUT: the call of asset_polling when wait is set, the final
\* asset_get otherwise; both take content["id"].
PostAfterUpload ==
    /\ op = "asset_post" /\ opc = "uploaded"
    /\ LET id == ContentId(result)
       IN  IF ~id.ok THEN BodyRaises(id.error, <<>>)
           ELSE IF WaitsForUpload(oargs.wait)
                THEN /\ opc' = "poll"
                     /\ olog' = Append(olog, Event("asset_polling", 0))
                     /\ poller' = "asset_polling" /\ ppc' = "first"
                     /\ current' = NoCheck /\ observed' = <<>>
                     /\ plog' = <<>> /\ presult' = NoPollResult
                     /\ UNCHANGED <<callvars, job, opretry, put_status, oresult>>
           ELSE /\ opc' = "refetch"
                /\ UNCHANGED <<callvars, pollvars, job, opretry, olog, put_status,
                               oresult>>
    /\ UNCHANGED opargs

\* A status check of the polling inside asset_post: a record it gives shows
\* the status of the server's asset.
ReportsJob ==
    /\ opc = "poll"
    /\ observed' # observed =>
          observed'[Len(observed')].payload = Mapping({"status"}, job)
    /\ (ppc' = "raised" /\ presult'.error = "ConnectionError") =>
          oattempt < MaxLateFailures

\* asset_polling has ended: its exception leaves the body, or the body goes
\* on to the final asset_get.
PostPollingEnd ==
    /\ op = "asset_post" /\ opc = "poll"
    /\ ppc \in {"returned", "raised"}
    /\ IF ppc = "raised" THEN BodyRaises(presult.error, <<>>)
       ELSE /\ opc' = "refetch"
            /\ UNCHANGED <<callvars, pollvars, job, opretry, olog, put_status,
                           oresult>>
    /\ UNCHANGED opargs

\* return asset_get(client, collection, asset_id=content["id"], status=False)
PostRefetch ==
    /\ op = "asset_post" /\ opc = "refetch"
    /\ \E net \in Transport("asset_polling", Len(observed) + 1) :
         /\ net.kind = "response" => net.response.payload = Mapping({"status"}, job)
         /\ net.kind = "ConnectionError" => oattempt < MaxLateFailures
         /\ LET r == asset_get(net)
            IN  IF ~r.ok THEN BodyRaises(r.error, <<Event("GET", 0)>>)
                ELSE /\ opc' = "done"
                     /\ oresult' = Return("Structured", r.content, response, 0)
                     /\ olog' = Append(olog, Event("GET", 0))
                     /\ UNCHANGED <<callvars, pollvars, job, opretry, put_status>>
    /\ UNCHANGED opargs

\* The server works on the uploaded asset.
PostJobAdvance == opc \in {"uploaded", "poll", "refetch"} /\ JobAdvance

\* ------------------------------------------------------------ asset_import
\* asset_import(client, collection, path, wait, verify) under @retry(times=10):
\* the POST, the decoding of its response, the PUT of the file's text to the
\* Location reference, and with wait set import_polling, whose last record
\* gives the ids.
ImportInit ==
    /\ CallIdle /\ PollIdle
    /\ job = "none"
    /\ op = "asset_import"
    /\ oargs \in [wait : BOOLEAN, path : {"file", "missing"}]
    /\ oattempt = 0 /\ odelay = 1
    /\ opc = "call" /\ olog = <<>>
    /\ put_status = 0
    /\ oresult = NoResult

\* response = client.post_request(endpoint=endpoint), then the call
\* get_content(response=response, get_from_location=False) starts.
ImportRequest ==
    /\ op = "asset_import" /\ opc = "call"
    /\ \E net \in PostTransport :
         IF net.kind # "response"
         THEN BodyRaises(net.kind, <<Event("invoke", 0), Event("POST", 0)>>)
         ELSE /\ response' = net.response
              /\ accept' = DefaultAccept
              /\ load' = TRUE /\ get_from_location' = FALSE
              /\ csv_content' = FALSE /\ unzip' = TRUE
              /\ served' = NoResponse
              /\ attempt' = 0 /\ delay' = 1
              /\ pc' = "retry"
              /\ result' = NoResult /\ log' = <<>>
              /\ opc' = "content"
              /\ olog' = olog \o <<Event("invoke", 0), Event("POST", 0)>>
              /\ job' = "uploading"
              /\ UNCHANGED <<pollvars, opretry, put_status, oresult>>
    /\ UNCHANGED opargs

\* with open(path) as file: requests.put(url=location_header, ...): the PUT
\* is issued whatever location_header is.
ImportUpload ==
    /\ op = "asset_import" /\ opc = "content"
    /\ pc = "done"
    /\ LET location_header == HeadersGet(response.headers, "Location", None)
       IN  IF result.kind = "raise" THEN BodyRaises(result.error, <<>>)
           ELSE IF oargs.path # "file" THEN BodyRaises("FileNotFoundError", <<>>)
           ELSE \E put \in PutTransport(location_header) :
                  /\ put.kind = "ConnectionError" => oattempt < MaxLateFailures
                  /\ IF PutError(put) # ""
                     THEN BodyRaises(PutError(put), <<Event("PUT", 0)>>)
                     ELSE /\ opc' = "uploaded"
                          /\ put_status' = put.status_code
                          /\ olog' = Append(olog, Event("PUT", 0))
                          /\ UNCHANGED <<callvars, pollvars, job, opretry, oresult>>
    /\ UNCHANGED opargs

\* if wait: import_polling(client, collection, copy_id=content["id"]) starts;
\* otherwise return content.
ImportAfterUpload ==
    /\ op = "asset_import" /\ opc = "uploaded"
    /\ LET id == ContentId(result)
       IN  IF ~WaitsForUpload(oargs.wait)
           THEN /\ opc' = "done"
                /\ oresult' = result
                /\ UNCHANGED <<callvars, pollvars, job, opretry, olog, put_status>>
           ELSE IF ~id.ok THEN BodyRaises(id.error, <<>>)
           ELSE /\ opc' = "poll"
                /\ olog' = Append(olog, Event("import_polling", 0))
                /\ poller' = "_assets_db_polling" /\ ppc' = "first"
                /\ current' = NoCheck /\ observed' = <<>>
                /\ plog' = <<>> /\ presult' = NoPollResult
                /\ UNCHANGED <<callvars, job, opretry, put_status, oresult>>
    /\ UNCHANGED opargs

\* A status check of the polling inside asset_import: a record it gives
\* shows the state of the server's import, and the ids once the import is
\* ready.
ReportsImportJob ==
    /\ opc = "poll"
    /\ observed' # observed =>
          observed'[Len(observed')].payload =
              Mapping(IF job = "ready" THEN {"state", "ids"} ELSE {"state"}, job)
    /\ (ppc' = "raised" /\ presult'.error = "ConnectionError") =>
          oattempt < MaxLateFailures

\* import_polling has ended: its exception leaves the body, or ["ids"] of
\* the record it returned is the result.
ImportPollingEnd ==
    /\ op = "asset_import" /\ opc = "poll"
    /\ ppc \in {"returned", "raised"}
    /\ IF ppc = "raised" THEN BodyRaises(presult.error, <<>>)
       ELSE LET content == presult.value.content
            IN  IF "ids" \notin DOMAIN content.payload
                THEN BodyRaises("KeyError", <<>>)
                ELSE /\ opc' = "done"
                     /\ oresult' = Return("Structured",
                                          FieldValue(content.payload["ids"]),
                                          response, 0)
                     /\ UNCHANGED <<callvars, pollvars, job, opretry, olog,
                                    put_status>>
    /\ UNCHANGED opargs

\* =========================================================================
\* Specifications
\* =========================================================================
Init == CallInit /\ PollIdle /\ OpIdle

Next == GuardedInvocation \/ FinalInvocation

\* One get_content call through the retry wrapper.
Spec == Init /\ [][Next]_vars

PollingInit == CallIdle /\ PollInit /\ OpIdle

PollingNext ==
    \/ AssetPollingFirst \/ AssetPollingLoop \/ AssetPollingReturn
    \/ CalcAssetPollingLoop \/ CalcAssetPollingReturn
    \/ CalcPollingFirst \/ CalcPollingLoop \/ CalcPollingReturn
    \/ AssetsDbPollingFirst \/ AssetsDbPollingLoop \/ AssetsDbPollingReturn

\* One run of a polling loop.
SpecPolling == PollingInit /\ [][PollingNext]_vars

\* calc_asset_polling is handed a record of the job as it is or as it was.
LiveInit ==
    /\ CallIdle
    /\ PollInit
    /\ OpNone
    /\ job \in IF poller = "calc_asset_polling" THEN {"processing", "ready"} ELSE Labels
    /\ poller = "calc_asset_polling" =>
          /\ current.payload \in {Mapping({"stats", "status"}, "processing"),
                                  Mapping({"stats", "status"}, job)}

PollerStep == PollingNext /\ SucceedingCheck

ListNext ==
    AssetListRequest \/ GuardedInvocation \/ FinalInvocation \/ AssetListReturn

\* One call of asset_list.
SpecList == ListInit /\ [][ListNext]_vars

UrlNext == UrlCall \/ UrlConsume

\* One call of get_content_from_url and the consumption of what it returns.
SpecUrl == UrlInit /\ [][UrlNext]_vars

PostNext ==
    \/ PostRequest
    \/ GuardedInvocation
    \/ PostUpload
    \/ PostAfterUpload
    \/ AssetPollingFirst /\ ReportsJob
    \/ AssetPollingLoop /\ ReportsJob
    \/ AssetPollingReturn /\ ReportsJob
    \/ PostPollingEnd
    \/ PostRefetch
    \/ PostJobAdvance

\* One call of asset_post.
SpecPost == PostInit /\ [][PostNext]_vars

ImportNext ==
    \/ ImportRequest
    \/ ImportUpload
    \/ ImportAfterUpload
    \/ AssetsDbPollingFirst /\ ReportsImportJob
    \/ AssetsDbPollingLoop /\ ReportsImportJob
    \/ AssetsDbPollingReturn /\ ReportsImportJob
    \/ ImportPollingEnd

UploadInit == PostInit \/ ImportInit

UploadNext == PostNext \/ ImportNext

\* One call of asset_post or of asset_import.
SpecUpload == UploadInit /\ [][UploadNext]_vars

LiveNext ==
    \/ AssetPollingFirst /\ SucceedingCheck
    \/ AssetPollingLoop /\ SucceedingCheck
    \/ AssetPollingReturn /\ SucceedingCheck
    \/ CalcAssetPollingLoop /\ SucceedingCheck
    \/ CalcAssetPollingReturn /\ SucceedingCheck
    \/ CalcPollingFirst /\ SucceedingCheck
    \/ CalcPollingLoop /\ SucceedingCheck
    \/ CalcPollingReturn /\ SucceedingCheck
    \/ AssetsDbPollingFirst /\ SucceedingCheck
    \/ AssetsDbPollingLoop /\ SucceedingCheck
    \/ AssetsDbPollingReturn /\ SucceedingCheck
    \/ JobAdvance

\* One run of a polling loop against a server whose job moves forward and
\* comes to an end.  The loops block only in sleep, which returns, so the
\* poller's next step is always taken; the job's progress is the hypothesis.
SpecPollingLive ==
    LiveInit /\ [][LiveNext]_vars /\ WF_vars(PollerStep) /\ WF_vars(JobAdvance)

\* =========================================================================
\* Properties of the retry wrapper and of get_content
\* =========================================================================
EventsOf(name) == SelectSeq(log, LAMBDA e : e.event = name)
Invocations == Len(EventsOf("invoke"))
Gets == Len(EventsOf("GET"))
SleepDelays == [k \in 1..Len(EventsOf("sleep")) |-> EventsOf("sleep")[k].delay]

\* 1, 2, 4, ..., 2^(n-1)
Doubling(n) == [k \in 1..n |-> 2 ^ (k - 1)]

\* Every sleep directly follows an invocation (or the GET it made) and is
\* directly followed by the next invocation if anything follows it; every
\* invocation but the first directly follows a sleep.
Interleaved ==
    \A i \in 1..Len(log) :
        /\ log[i].event = "sleep" =>
              /\ i > 1 /\ log[i - 1].event \in {"invoke", "GET"}
              /\ i < Len(log) => log[i + 1].event = "invoke"
        /\ log[i].event = "GET" => i > 1 /\ log[i - 1].event = "invoke"
        /\ log[i].event = "invoke" => i = 1 \/ log[i - 1].event = "sleep"

\* The last event is an invocation or its GET: nothing follows the
\* invocation that ended the call.
EndsWithInvocation ==
    /\ log # <<>>
    /\ log[Len(log)].event # "sleep"

Accepted == response.status_code \in accept
HasLocation ==
    /\ "Location" \in DOMAIN response.headers
    /\ response.headers["Location"] # ""
Dereferences == Accepted /\ get_from_location /\ HasLocation
TransportError == result.kind = "raise" /\ result.error \in {"ConnectionError", "RequestException"}

\* C1: when the wrapped operation raises a connection error on its first
\* N-1 invocations and succeeds on the N-th (N <= 10), the wrapped call
\* returns that value after exactly N invocations and N-1 sleeps of 1, 2, 4,
\* ..., 2^(N-2), and nothing follows the successful invocation.
C1_RetryUntilSuccess ==
    (pc = "done" /\ result.kind = "return" /\ attempt < Times) =>
        /\ Invocations = attempt + 1
        /\ SleepDelays = Doubling(attempt)
        /\ Interleaved
        /\ EndsWithInvocation
        /\ result.variant \in {"RawBytes", "Text", "Structured", "Tabular"}
        /\ result = get_content(response, accept, load, get_from_location, csv_content,
                                unzip, [kind |-> "response", response |-> served])

\* The tenth invocation succeeds after nine connection errors.
C1_Witness ==
    pc = "done" /\ result.kind = "return" /\ attempt = Times - 1

\* C2: when every invocation raises a connection error there are 10 guarded
\* invocations, each followed by one sleep (1, 2, ..., 512), then one
\* unguarded invocation with no sleep after it, whose connection error
\* propagates; never more than 11 invocations in one wrapped call.
C2_RetryExhausted ==
    /\ Invocations <= Times + 1
    /\ attempt <= Times
    /\ Len(EventsOf("sleep")) = attempt
    /\ (pc = "retry" /\ log # <<>>) => log[Len(log)].event = "sleep"
    /\ (pc = "done" /\ result.kind = "raise" /\ result.error = "ConnectionError") =>
          /\ Invocations = Times + 1
          /\ attempt = Times
          /\ SleepDelays = Doubling(Times)
          /\ SleepDelays[Times] = 512
          /\ Interleaved
          /\ EndsWithInvocation

\* The connection error of the eleventh invocation has propagated.
C2_Witness ==
    /\ pc = "done" /\ result.kind = "raise" /\ result.error = "ConnectionError"
    /\ Invocations = Times + 1

\* C3: an error that is not a connection error (in particular
\* UnexpectedStatus) propagates from the invocation that raised it: no sleep
\* and no further invocation follows it.
C3_OtherErrorsPropagate ==
    (pc = "done" /\ result.kind = "raise" /\ result.error # "ConnectionError") =>
        /\ Invocations = attempt + 1
        /\ Len(EventsOf("sleep")) = attempt
        /\ EndsWithInvocation
        /\ result.error = "UnexpectedStatus" => log = <<Event("invoke", 0)>>

\* UnexpectedStatus has come out of the wrapper.
C3_Witness ==
    pc = "done" /\ result.kind = "raise" /\ result.error = "UnexpectedStatus"

\* C4: for every response whose status code is not in accept and for every
\* combination of load, get_from_location, csv_content and unzip,
\* get_content raises UnexpectedStatus carrying that response and returns no
\* value.
C4_RejectedStatusRaises ==
    (pc = "done" /\ response.status_code \notin accept) =>
        /\ result.kind = "raise"
        /\ result.error = "UnexpectedStatus"
        /\ result.response = response
        /\ result.value = <<>>
        /\ Gets = 0

\* A rejected response with a Location reference and every flag set.
C4_Witness ==
    /\ pc = "done" /\ response.status_code \notin accept
    /\ HasLocation /\ load /\ get_from_location /\ csv_content /\ unzip

\* C5: every call of get_content ends in one of five outcomes: RawBytes,
\* Text, Structured or Tabular content returned, or UnexpectedStatus raised.
C5_FiveOutcomes ==
    pc = "done" =>
        \/ result.kind = "return" /\ result.variant \in {"RawBytes", "Text", "Structured", "Tabular"}
        \/ result.kind = "raise" /\ result.error = "UnexpectedStatus"

\* C6: with status in accept, load set and csv_content unset, a body that is
\* valid JSON gives the structured value of parsing it, and every other body
\* gives the UTF-8 text of the body, without raising.
C6_StructuredOrText ==
    (pc = "done" /\ Accepted /\ load /\ ~csv_content /\ ~TransportError) =>
        LET body == IF Dereferences THEN served.content ELSE response.content
        IN  /\ result.kind = "return"
            /\ IF JsonLoads(body).ok
               THEN result.variant = "Structured" /\ result.value = JsonLoads(body).value
               ELSE result.variant = "Text" /\ result.value = Utf8Decode(body).value

\* C7 as claimed: with status in accept, load set and csv_content set, a
\* call that returns gives Tabular rows, read from the first entry of the
\* archive when unzip is set and from the body otherwise; the fallback to
\* Text is for the structured branch only.
C7_TabularNeverText ==
    (pc = "done" /\ Accepted /\ load /\ csv_content /\ result.kind = "return") =>
        LET body == IF Dereferences THEN served.content ELSE response.content
            data == IF unzip THEN ZipReadFirst(body).value ELSE body
        IN  /\ result.variant = "Tabular"
            /\ result.value = read_csv(SplitLines(data), Delimiter).value

\* C7 as amended: with status in accept, load set and csv_content set, the
\* rows are read from the first entry of the archive when unzip is set and
\* from the body otherwise, and returned as Tabular when they can be read;
\* "a,b\n1,2\n" gives [[a,b],[1,2]] zip-wrapped with unzip set and plain with
\* unzip unset.  When they cannot be read (no archive, no entry, lines that
\* are not UTF-8) the fallback of the structured branch applies here too:
\* the text of the body is returned, and the decoding error of a body that
\* is not UTF-8 is raised.
C7_TabularOrFallback ==
    (pc = "done" /\ Accepted /\ load /\ csv_content /\ ~TransportError) =>
        LET body == IF Dereferences THEN served.content ELSE response.content
            data == IF unzip THEN ZipReadFirst(body) ELSE Success(body)
            rows == IF data.ok THEN read_csv(SplitLines(data.value), Delimiter) ELSE Failed
        IN  /\ IF rows.ok
               THEN /\ result.kind = "return" /\ result.variant = "Tabular"
                    /\ result.value = rows.value
               ELSE IF Utf8Decode(body).ok
               THEN /\ result.kind = "return" /\ result.variant = "Text"
                    /\ result.value = Utf8Decode(body).value
               ELSE result.kind = "raise" /\ result.error = "UnicodeDecodeError"
            /\ (body = SampleCsv /\ ~unzip) =>
                   result.variant = "Tabular" /\ result.value = SampleRows
            /\ (body = ZipArchive(<<SampleCsv>>) /\ unzip) =>
                   result.variant = "Tabular" /\ result.value = SampleRows
            /\ (body = SampleCsv /\ unzip) =>
                   result.variant = "Text" /\ result.value = SampleCsv

\* The zip-wrapped sample has been decoded with unzip set.
C7_Witness ==
    /\ pc = "done" /\ Accepted /\ load /\ csv_content /\ unzip
    /\ ~Dereferences /\ response.content = ZipArchive(<<SampleCsv>>)
    /\ result.kind = "return" /\ result.value = SampleRows

\* C8: for every response whose status is in accept and with load unset,
\* get_content returns exactly the raw bytes of the body: of the
\* Location-dereferenced response when a dereference took place, otherwise of
\* the original response, whatever csv_content and unzip are; only a failed
\* dereference keeps it from returning.
C8_RawBytes ==
    (pc = "done" /\ Accepted /\ ~load) =>
        /\ TransportError => Dereferences
        /\ ~TransportError =>
              /\ result.kind = "return"
              /\ result.variant = "RawBytes"
              /\ result.value = IF Dereferences THEN served.content ELSE response.content

\* The raw bytes of a dereferenced archive body, with csv_content and unzip set.
C8_Witness ==
    /\ pc = "done" /\ Accepted /\ ~load /\ csv_content /\ unzip
    /\ Dereferences /\ result.kind = "return"
    /\ served.content = ZipArchive(<<SampleCsv>>)
    /\ result.value # response.content

\* C9: a secondary GET is issued exactly when the status is in accept,
\* get_from_location is set and the response carries a non-empty Location
\* reference: then exactly one GET per invocation, right after it starts,
\* and the decoding uses the second response; otherwise no GET and the
\* original response is used.
C9_SecondaryGet ==
    /\ Gets = IF Dereferences THEN Invocations ELSE 0
    /\ \A i \in 1..Len(log) :
          (log[i].event = "invoke" /\ Dereferences) =>
              i < Len(log) /\ log[i + 1].event = "GET"
    /\ (pc = "done" /\ ~TransportError) =>
          /\ result.response = IF Dereferences THEN served ELSE response
          /\ result.gets = IF Dereferences THEN 1 ELSE 0

\* The second decode attempt has issued its GET and decoded the second body.
C9_Witness ==
    /\ pc = "done" /\ Dereferences /\ result.kind = "return"
    /\ Invocations = 2 /\ Gets = 2
    /\ result.response = served /\ served.content # response.content

\* A response with an empty Location reference has been decoded without a GET.
C9_WitnessEmptyLocation ==
    /\ pc = "done" /\ Accepted /\ get_from_location
    /\ HeadersGet(response.headers, "Location", None) = ""
    /\ Gets = 0 /\ result.kind = "return"

\* =========================================================================
\* Properties of the polling loops
\* =========================================================================
Checks == Len(SelectSeq(plog, LAMBDA e : e.event = "check"))

\* The field a poller reads in the record of a status check.
PolledField == IF poller = "asset_polling" THEN "status" ELSE "state"

\* The record carries one of the two pending labels.
ShowsPending(content) ==
    /\ PolledField \in DOMAIN content.payload
    /\ content.payload[PolledField] \in {"uploading", "processing"}

ObservedLabels ==
    [i \in 1..Len(observed) |->
        IF PolledField \in DOMAIN observed[i].payload
        THEN observed[i].payload[PolledField] ELSE "(none)"]

\* C10: when the status checks return k pending values and then a
\* non-pending one, asset_polling and _assets_db_polling perform exactly k+1
\* status checks (3 for uploading, processing, ready; 1 for a terminal first
\* value) and then stop: no status check follows a non-pending value.
C10_ChecksUntilNonPending ==
    poller \in {"asset_polling", "_assets_db_polling"} =>
        /\ \A i \in 1..(Len(observed) - 1) : ShowsPending(observed[i])
        /\ ppc \in {"first", "loop", "returned"} => Checks = Len(observed)
        /\ ppc = "first" => observed = <<>>
        /\ ppc = "returned" =>
              /\ observed # <<>>
              /\ ~ShowsPending(observed[Len(observed)])
              /\ presult.kind = "return"
        /\ (ppc = "loop" /\ ~ShowsPending(observed[Len(observed)])) =>
              /\ ~ENABLED AssetPollingLoop
              /\ ~ENABLED AssetsDbPollingLoop
              /\ ENABLED (AssetPollingReturn \/ AssetsDbPollingReturn)
        /\ (ppc = "returned" /\ ObservedLabels = <<"uploading", "processing", "ready">>) =>
              Checks = 3
        /\ (ppc = "returned" /\ Len(observed) = 1) => Checks = 1

\* asset_polling has returned after uploading, processing, ready.
C10_Witness ==
    /\ poller = "asset_polling" /\ ppc = "returned"
    /\ ObservedLabels = <<"uploading", "processing", "ready">>
    /\ Checks = 3

\* _assets_db_polling has returned after one check that gave a terminal state.
C10_WitnessImmediate ==
    /\ poller = "_assets_db_polling" /\ ppc = "returned"
    /\ ObservedLabels = <<"failed">>
    /\ Checks = 1

\* The record of the last status check of the run.
LastObserved == observed[Len(observed)]

C11_WitnessStatusField ==
    /\ poller = "asset_polling" /\ ppc = "returned"
    /\ Len(observed) = 2
    /\ presult.value.type = "field" /\ presult.value.field = "ready"

\* The sleep a poller makes between status checks.
Interval == IF poller = "calc_asset_polling" THEN 5 ELSE 1

\* C12 (as stated): a pending check is followed by one sleep of the poller's
\* interval (5 for calc_asset_polling, 1 for the others) before the next
\* check, so that any two consecutive checks are separated by exactly one
\* sleep, and no sleep follows the check that observed a terminal value.
C12_OneSleepBetweenChecks ==
    /\ \A i \in 1..Len(plog) : plog[i].event = "sleep" => plog[i].delay = Interval
    /\ \A i \in 1..(Len(plog) - 1) :
          plog[i].event = "check" =>
              /\ plog[i + 1].event = "sleep"
              /\ i + 2 <= Len(plog) => plog[i + 2].event = "check"
    /\ ppc \in {"returned", "raised"} =>
          (plog # <<>> => plog[Len(plog)].event = "check")

\* C13: any value of the polled field outside the pending set, "failed"
\* included, makes asset_polling (field status) and _assets_db_polling (field
\* state) stop and return normally; only a pending value keeps them polling,
\* and they raise only for a failed check or a record without the field.
C13_NonPendingReturns ==
    poller \in {"asset_polling", "_assets_db_polling"} =>
        /\ (ppc = "loop" /\ PolledField \in DOMAIN current.payload
              /\ current.payload[PolledField] \notin {"uploading", "processing"}) =>
              /\ ENABLED (AssetPollingReturn \/ AssetsDbPollingReturn)
              /\ ~ENABLED (AssetPollingLoop \/ AssetsDbPollingLoop)
        /\ (ppc = "loop" /\ ShowsPending(current)) =>
              ~ENABLED (AssetPollingReturn \/ AssetsDbPollingReturn)
        /\ ppc = "returned" =>
              /\ presult.kind = "return"
              /\ current.payload[PolledField] \in Labels \ {"uploading", "processing"}
        /\ ppc = "raised" =>
              /\ presult.error \in {"ConnectionError", "UnexpectedStatus", "KeyError"}
              /\ presult.error = "KeyError" =>
                    (observed # <<>> /\ PolledField \notin DOMAIN current.payload)

\* asset_polling has returned normally on the value "failed".
C13_Witness ==
    /\ poller = "asset_polling" /\ ppc = "returned"
    /\ presult.kind = "return" /\ presult.value.field = "failed"

\* _assets_db_polling has returned normally on the state "failed" after a
\* pending one.
C13_WitnessState ==
    /\ poller = "_assets_db_polling" /\ ppc = "returned"
    /\ ObservedLabels = <<"processing", "failed">>
    /\ presult.kind = "return"

\* =========================================================================
\* The status of the dereferenced response
\* =========================================================================
\* The second response with its status replaced by 200.
ServedOk == [served EXCEPT !.status_code = 200]

\* C20: the accept check is applied to the original response only.  When the
\* Location reference is followed, the status of the second response is never
\* compared with accept: its body is materialized whatever its status, so the
\* call ends as it would had the second response come with status 200, and
\* UnexpectedStatus is raised only for an original response outside accept.
C20_SecondStatusUnchecked ==
    pc = "done" =>
        /\ result.error = "UnexpectedStatus" => (~Accepted /\ result.response = response)
        /\ (Dereferences /\ ~TransportError) =>
              /\ result.response = served
              /\ [result EXCEPT !.response = ServedOk] =
                    get_content(response, accept, load, get_from_location,
                                csv_content, unzip,
                                [kind |-> "response", response |-> ServedOk])

\* The body of a second response with status 404, outside accept, has been
\* decoded and returned.
C20_Witness ==
    /\ pc = "done" /\ Dereferences
    /\ served.status_code = 404 /\ 404 \notin accept
    /\ result.kind = "return" /\ result.response = served
    /\ load /\ result.variant = "Structured"

\* =========================================================================
\* Polling against a server whose job moves forward
\* =========================================================================
\* The poller's local record shows a value that keeps its loop going.
LoopPending ==
    CASE poller = "calc_polling" -> current.status_code = 202
      [] poller = "calc_asset_polling" -> current.payload["stats"] = "processing"
      [] OTHER -> ShowsPending(current)

\* While every check so far succeeded and reported pending, the poller has
\* neither returned nor raised, cannot leave its loop, and makes its next
\* check (up to the bound of the model).
KeepsPolling ==
    /\ ppc # "raised"
    /\ ppc = "returned" => ~LoopPending
    /\ (ppc = "loop" /\ LoopPending) =>
          /\ ~ENABLED (AssetPollingReturn \/ CalcAssetPollingReturn
                         \/ CalcPollingReturn \/ AssetsDbPollingReturn)
          /\ Len(observed) < MaxChecks - 1 => ENABLED PollerStep

\* C14: polling has no bound of its own: as long as the checks succeed and
\* report pending the poller neither returns nor raises and goes on checking
\* (runs with every number of checks up to the model's bound exist); and
\* when the job moves forward, comes to a non-pending status and the checks
\* keep succeeding, the poller eventually stops and returns.
C14_PollsUntilJobEnds == []KeepsPolling /\ <>(ppc = "returned")

\* A run in which every check up to the last one the bound allows was made
\* and all but the last reported pending.
C14_Witness ==
    /\ poller = "asset_polling" /\ ppc = "returned"
    /\ Len(observed) = MaxChecks
    /\ \A i \in 1..(MaxChecks - 1) : ShowsPending(observed[i])

\* =========================================================================
\* Properties of asset_list
\* =========================================================================
\* The decoded content is a mapping that has the key.
ContentHas(key) ==
    \E i \in 1..Len(result.value.items) : result.value.items[i].text = key

\* C18: asset_list returns exactly the sequence stored under the content key
\* when the decoded content is a mapping with count, total and content keys,
\* and raises UnexpectedContentType, returning no value, whenever the decoded
\* content is not a mapping (a sequence, a number, or the text of a degraded
\* decode).
C18_ListShaping ==
    (op = "asset_list" /\ opc = "done" /\ pc = "done" /\ result.kind = "return") =>
        IF result.variant = "Structured" /\ result.value.type = "object"
        THEN (ContentHas(KeyCount) /\ ContentHas(KeyTotal) /\ ContentHas(KeyContent)) =>
                /\ oresult.kind = "return"
                /\ \E i \in 1..Len(result.value.items) :
                      /\ result.value.items[i].text = KeyContent
                      /\ \A j \in (i + 1)..Len(result.value.items) :
                            result.value.items[j].text # KeyContent
                      /\ oresult.value = result.value.items[i].items[1]
        ELSE /\ oresult.kind = "raise"
             /\ oresult.error = "UnexpectedContentType"
             /\ oresult.value = <<>>

\* The listing {"count":2,"total":10,"content":[1,2]} has given [1,2].
C18_Witness ==
    /\ op = "asset_list" /\ opc = "done"
    /\ result.response.content = SampleListing
    /\ oresult.kind = "return"
    /\ oresult.value = JsonArray(<<JsonNumber(1), JsonNumber(2)>>)

\* A content that is a sequence has raised.
C18_WitnessSequence ==
    /\ op = "asset_list" /\ opc = "done"
    /\ result.kind = "return" /\ result.variant = "Structured"
    /\ result.value = JsonArray(<<JsonNumber(1), JsonNumber(1)>>)
    /\ oresult.kind = "raise" /\ oresult.error = "UnexpectedContentType"

\* The text of a degraded decode has raised.
C18_WitnessText ==
    /\ op = "asset_list" /\ opc = "done"
    /\ result.kind = "return" /\ result.variant = "Text"
    /\ oresult.kind = "raise" /\ oresult.error = "UnexpectedContentType"

\* =========================================================================
\* Properties of get_content_from_url
\* =========================================================================
OpEvents(name) == Len(SelectSeq(olog, LAMBDA ev : ev.event = name))

\* C19 (as stated): get_content_from_url is covered by the retry wrapper: a
\* connection error raised while the fetch of the URL runs makes the fetch
\* run again after a sleep, up to the attempt bound; it reaches the consumer
\* only when the last of Times + 1 fetches has failed.
C19_FetchRetried ==
    (op = "get_content_from_url" /\ opc = "done"
        /\ oresult.kind = "raise" /\ oresult.error = "ConnectionError") =>
        /\ OpEvents("GET") = Times + 1
        /\ OpEvents("sleep") = Times

\* =========================================================================
\* Properties of asset_post
\* =========================================================================
\* The place of the last sleep of the wrapper in olog (0 when there is none).
LastSleep ==
    IF \E i \in 1..Len(olog) : olog[i].event = "sleep"
    THEN CHOOSE i \in 1..Len(olog) :
            /\ olog[i].event = "sleep"
            /\ \A j \in (i + 1)..Len(olog) : olog[j].event # "sleep"
    ELSE 0

\* The events of the invocation of the body that runs or ran last.
InvocationEvents == [i \in 1..(Len(olog) - LastSleep) |-> olog[LastSleep + i].event]

\* The POST response carries a Location header.
PostHasLocation == "Location" \in DOMAIN response.headers

Returned == op = "asset_post" /\ opc = "done" /\ oresult.kind = "return"

C15_WitnessNoWait ==
    /\ Returned /\ PostHasLocation /\ ~oargs.wait
    /\ oresult.value.payload["status"] = "uploading"

\* C16: asset_post takes the upload path (PUT, polling when wait is set,
\* final GET) if and only if the POST response carries a Location reference.
\* When it carries none and the decoded content of the response is the
\* created asset, that content is returned, and the invocation issues no
\* PUT, no status check and no further GET.
C16_UploadIffLocation ==
    op = "asset_post" =>
        /\ (\E i \in 1..Len(InvocationEvents) :
                InvocationEvents[i] \in {"PUT", "asset_polling", "GET"}) =>
              PostHasLocation
        /\ (opc \in {"uploaded", "poll", "refetch"} \/ plog # <<>>) => PostHasLocation
        /\ (opc = "done" /\ pc = "done" /\ ~PostHasLocation) =>
              /\ InvocationEvents = <<"invoke", "POST">>
              /\ plog = <<>>
              /\ (result.kind = "return" /\ ContentId(result).ok) =>
                    /\ oresult.kind = "return"
                    /\ oresult.response = response
                    /\ oresult.variant = "Structured"
                    /\ oresult.value = JsonLoads(response.content).value
        /\ (opc = "done" /\ pc = "done" /\ PostHasLocation
              /\ result.kind = "return" /\ oargs.data = "text") =>
              /\ Len(InvocationEvents) >= 3
              /\ InvocationEvents[3] = "PUT"
              /\ oresult.kind = "return" => InvocationEvents[Len(InvocationEvents)] = "GET"

\* Without a Location header the content of the POST response has been
\* returned.
C16_Witness ==
    /\ Returned /\ ~PostHasLocation
    /\ oresult.value.type = "object"
    /\ InvocationEvents = <<"invoke", "POST">>

\* With a Location header the record of the final GET has been returned.
C16_WitnessLocation ==
    /\ Returned /\ PostHasLocation
    /\ InvocationEvents[3] = "PUT"

\* The POSTs of the call that the server answered, each creating an asset (a
\* POST that raised is followed by the wrapper's sleep or ends the call).
AnsweredPosts ==
    {i \in 1..Len(olog) :
        /\ olog[i].event = "POST"
        /\ IF i < Len(olog) THEN olog[i + 1].event # "sleep" ELSE pc # "idle"}

\* C17 (as stated): one call of asset_post issues exactly one POST through
\* the transport, so that at most one asset is created per call, whatever
\* connection failures occur in the later PUT, the polling checks or the
\* final GET of the same call.
C17_OnePost ==
    op = "asset_post" => Cardinality(AnsweredPosts) <= 1

\* The step of the body that follows the PUT: what it does is fixed by wait
\* and by the decoded content of the POST response.
AfterUploadStep ==
    LET id == ContentId(result)
    IN  /\ put_status' = put_status
        /\ IF op = "asset_post"
           THEN IF ~id.ok
                THEN opc' = "done" /\ oresult' = Raise(id.error, response, 0)
                ELSE /\ oresult' = NoResult
                     /\ opc' = IF oargs.wait THEN "poll" ELSE "refetch"
                     /\ oargs.wait => (poller' = "asset_polling" /\ ppc' = "first")
           ELSE IF ~oargs.wait THEN opc' = "done" /\ oresult' = result
                ELSE IF ~id.ok
                     THEN opc' = "done" /\ oresult' = Raise(id.error, response, 0)
                     ELSE /\ oresult' = NoResult /\ opc' = "poll"
                          /\ poller' = "_assets_db_polling" /\ ppc' = "first"

\* The invocation that ran last ended with an exception at its PUT.
RaisedAtPut ==
    /\ opc = "done" /\ oresult.kind = "raise"
    /\ put_status = 0
    /\ Len(InvocationEvents) > 0
    /\ InvocationEvents[Len(InvocationEvents)] = "PUT"

\* C21: the response of the PUT in asset_post and asset_import never
\* influences control flow. Once the PUT is answered, with whatever status,
\* no error is raised and the body is ready for its next step; that step is
\* the one wait and the decoded content fix (the polling, the final GET or
\* the return), the same after a rejected upload as after an accepted one;
\* and a call that ends at the PUT ends with a raised transport error.
C21_PutResponseIgnored ==
    /\ [](opc = "uploaded" =>
            /\ put_status \in PutStatuses
            /\ oresult = NoResult
            /\ InvocationEvents[Len(InvocationEvents)] = "PUT"
            /\ ENABLED (PostAfterUpload \/ ImportAfterUpload))
    /\ [](RaisedAtPut => oresult.error \in {"ConnectionError", "RequestException"})
    /\ [][(opc = "uploaded" /\ opc' # "uploaded") => AfterUploadStep]_vars

\* After a PUT that the store rejected asset_post has gone on to the final
\* GET and returned its record.
C21_Witness ==
    /\ Returned /\ put_status = 403
    /\ InvocationEvents = <<"invoke", "POST", "PUT", "asset_polling", "GET">>

\* After a PUT that the store rejected asset_import has polled the import
\* and returned its ids.
C21_WitnessImport ==
    /\ op = "asset_import" /\ opc = "done" /\ oresult.kind = "return"
    /\ put_status = 403
    /\ InvocationEvents = <<"invoke", "POST", "PUT", "import_polling">>
    /\ ppc = "returned"

\* A call has ended at its PUT with a transport error.
C21_WitnessTransport == RaisedAtPut

====
